---- MODULE Spec2Model ----
(***************************************************************************)
(* Model of server.js: an Express application that keeps a list of         *)
(* products in memory and serves it over a chain of middleware:            *)
(*   bodyParser.json -> logger -> GET / -> auth (under /api) -> routes     *)
(*   -> global error handler.                                              *)
(* A request is carried through the chain one middleware at a time; the    *)
(* position of the request in the chain is pc.                             *)
(***************************************************************************)
EXTENDS Integers, Sequences, FiniteSets, TLC

VARIABLES
  products,   \* the store
  uuidCount,  \* number of identifiers uuidv4 has handed out
  pc,         \* the middleware the request in progress is at
  req,        \* the request in progress
  res,        \* the response written for it
  err,        \* the error passed to next() for it
  route,      \* the route the router matched for it
  ran,        \* the middleware and handlers that ran for it, in order
  before,     \* the store when the request arrived
  lastWrite,  \* the last successful POST, PUT or DELETE: its route, the id
              \* in its response and its body
  inflight,   \* the requests the server holds at once, one per connection
  committed   \* the requests whose chain has run, in the order it ran

vars == <<products, uuidCount, pc, req, res, err, route, ran, before, lastWrite,
          inflight, committed>>

----------------------------------------------------------------------------
(* Bounds of the model.                                                    *)

\* number of requests the server may hold at once
MaxInFlight == 2

\* number of requests that may arrive while several are held at once
MaxRequests == 2

\* number of POSTs that may create a product (calls of uuidv4)
MaxCreates == 1

----------------------------------------------------------------------------
(* JavaScript values.  A text is a sequence of one-character strings; a    *)
(* number is a finite integer, Infinity or NaN.                            *)

Undefined == [kind |-> "undefined", s |-> <<>>, n |-> 0, b |-> FALSE, fin |-> "-"]
Null      == [kind |-> "null", s |-> <<>>, n |-> 0, b |-> FALSE, fin |-> "-"]
Str(t)    == [kind |-> "string", s |-> t, n |-> 0, b |-> FALSE, fin |-> "-"]
Num(i)    == [kind |-> "number", s |-> <<>>, n |-> i, b |-> FALSE, fin |-> "finite"]
Infinity  == [kind |-> "number", s |-> <<>>, n |-> 0, b |-> FALSE, fin |-> "Infinity"]
NaN       == [kind |-> "number", s |-> <<>>, n |-> 0, b |-> FALSE, fin |-> "NaN"]
Bool(v)   == [kind |-> "boolean", s |-> <<>>, n |-> 0, b |-> v, fin |-> "-"]
Obj       == [kind |-> "object", s |-> <<>>, n |-> 0, b |-> FALSE, fin |-> "-"]

\* typeof v
TypeOf(v) == IF v.kind = "null" THEN "object" ELSE v.kind

\* the truth value of v in a condition (!v is ~Truthy(v))
Truthy(v) ==
  CASE v.kind = "undefined" -> FALSE
    [] v.kind = "null"      -> FALSE
    [] v.kind = "string"    -> v.s # <<>>
    [] v.kind = "number"    -> v.fin = "Infinity" \/ (v.fin = "finite" /\ v.n # 0)
    [] v.kind = "boolean"   -> v.b
    [] OTHER                -> TRUE

\* Number.isNaN(v)
IsNaN(v) == v.kind = "number" /\ v.fin = "NaN"

\* 'field' in req.body: a parsed JSON object holds no undefined member
In(v) == v.kind # "undefined"

----------------------------------------------------------------------------
(* Texts.                                                                  *)

UpperCase == <<"A","B","C","D","E","F","G","H","I","J","K","L","M",
               "N","O","P","Q","R","S","T","U","V","W","X","Y","Z">>
LowerCase == <<"a","b","c","d","e","f","g","h","i","j","k","l","m",
               "n","o","p","q","r","s","t","u","v","w","x","y","z">>

\* one character of String.prototype.toLowerCase
LowerChar(c) ==
  IF \E i \in 1..26 : UpperCase[i] = c
  THEN LowerCase[CHOOSE i \in 1..26 : UpperCase[i] = c]
  ELSE c

\* t.toLowerCase()
ToLowerCase(t) == [i \in 1..Len(t) |-> LowerChar(t[i])]

\* t.includes(q)
Includes(t, q) ==
  \E i \in 0..(Len(t) - Len(q)) : SubSeq(t, i + 1, i + Len(q)) = q

Digits == <<"0","1","2","3","4","5","6","7","8","9">>
IsDigit(c) == \E i \in 1..10 : Digits[i] = c
DigitVal(c) == (CHOOSE i \in 1..10 : Digits[i] = c) - 1

RECURSIVE LeadingDigits(_)
\* the longest prefix of t made of digits
LeadingDigits(t) ==
  IF t = <<>> \/ ~IsDigit(Head(t)) THEN <<>>
  ELSE <<Head(t)>> \o LeadingDigits(Tail(t))

RECURSIVE DigitsValue(_)
DigitsValue(d) ==
  IF d = <<>> THEN 0
  ELSE 10 * DigitsValue(SubSeq(d, 1, Len(d) - 1)) + DigitVal(d[Len(d)])

RECURSIVE TrimStart(_)
TrimStart(t) == IF t # <<>> /\ Head(t) = " " THEN TrimStart(Tail(t)) ELSE t

\* parseInt(v): leading blanks, an optional sign, then decimal digits;
\* NaN when no digit follows
ParseInt(v) ==
  IF v.kind # "string" THEN NaN
  ELSE LET t    == TrimStart(v.s)
           neg  == t # <<>> /\ Head(t) = "-"
           sign == t # <<>> /\ Head(t) \in {"-", "+"}
           d    == LeadingDigits(IF sign THEN Tail(t) ELSE t)
       IN  IF d = <<>> THEN NaN
           ELSE Num(IF neg THEN 0 - DigitsValue(d) ELSE DigitsValue(d))

Max(a, b) == IF a >= b THEN a ELSE b
Min(a, b) == IF a <= b THEN a ELSE b

RECURSIVE Join(_, _)
\* errors.join(sep)
Join(errors, sep) ==
  IF errors = <<>> THEN ""
  ELSE IF Len(errors) = 1 THEN errors[1]
  ELSE errors[1] \o sep \o Join(Tail(errors), sep)

RECURSIVE Filter(_, _)
\* Array.prototype.filter: the elements of seq whose test holds, in order;
\* keep[i] is the outcome of the test on seq[i]
Filter(seq, keep) ==
  IF seq = <<>> THEN <<>>
  ELSE (IF keep[1] THEN <<seq[1]>> ELSE <<>>) \o Filter(Tail(seq), Tail(keep))

----------------------------------------------------------------------------
(* Texts of the program and of the requests.                               *)

T_Laptop == <<"L","a","p","t","o","p">>
T_LaptopDesc ==
  <<"H","i","g","h","-","p","e","r","f","o","r","m","a","n","c","e",
    " ","l","a","p","t","o","p"," ","w","i","t","h"," ","1","6","G",
    "B"," ","R","A","M">>
T_Smartphone == <<"S","m","a","r","t","p","h","o","n","e">>
T_SmartphoneDesc ==
  <<"L","a","t","e","s","t"," ","m","o","d","e","l"," ","w","i","t",
    "h"," ","1","2","8","G","B"," ","s","t","o","r","a","g","e">>
T_CoffeeMaker == <<"C","o","f","f","e","e"," ","M","a","k","e","r">>
T_CoffeeMakerDesc ==
  <<"P","r","o","g","r","a","m","m","a","b","l","e"," ","c","o","f",
    "f","e","e"," ","m","a","k","e","r"," ","w","i","t","h"," ","t",
    "i","m","e","r">>
T_Electronics == <<"e","l","e","c","t","r","o","n","i","c","s">>
T_Kitchen == <<"k","i","t","c","h","e","n">>
T_SecretKey == <<"s","e","c","r","e","t","-","k","e","y">>
\* texts used by the requests only
T_Table == <<"T","a","b","l","e">>
T_TableDesc ==
  <<"W","o","o","d","e","n"," ","d","i","n","i","n","g"," ","t","a",
    "b","l","e">>
T_Furniture == <<"f","u","r","n","i","t","u","r","e">>
T_Wrong == <<"w","r","o","n","g">>
T_Phone == <<"P","H","O","N","E">>

----------------------------------------------------------------------------
(* The store.                                                              *)

Product(id, name, description, price, category, inStock) ==
  [id |-> id, name |-> name, description |-> description, price |-> price,
   category |-> category, inStock |-> inStock]

\* let products = [...]
SeedProducts ==
  << Product("1", Str(T_Laptop), Str(T_LaptopDesc), Num(1200),
             Str(T_Electronics), Bool(TRUE)),
     Product("2", Str(T_Smartphone), Str(T_SmartphoneDesc), Num(800),
             Str(T_Electronics), Bool(TRUE)),
     Product("3", Str(T_CoffeeMaker), Str(T_CoffeeMakerDesc), Num(50),
             Str(T_Kitchen), Bool(FALSE)) >>

\* uuidv4(): the n-th identifier handed out, never handed out before
uuidv4(n) == "uuid-" \o ToString(n)

\* products.findIndex(p => p.id === id), 0 for -1
FindIndex(list, id) ==
  IF \E i \in 1..Len(list) : list[i].id = id
  THEN CHOOSE i \in 1..Len(list) :
         list[i].id = id /\ \A j \in 1..(i - 1) : list[j].id # id
  ELSE 0

\* products.splice(idx, 1)
Splice(list, idx) == SubSeq(list, 1, idx - 1) \o SubSeq(list, idx + 1, Len(list))

\* variant: the element at end is taken too
Slice_inclusiveEnd(list, start, end) == SubSeq(list, start + 1, Min(end + 1, Len(list)))

\* result.slice(start, end), start and end 0-based and not negative
Slice(list, start, end) == SubSeq(list, start + 1, Min(end, Len(list)))

----------------------------------------------------------------------------
(* Errors.                                                                 *)

NoError == [status |-> 0, message |-> ""]
AppError(message, status) == [status |-> status, message |-> message]
NotFoundError(message) == AppError(message, 404)
ValidationError(message) == AppError(message, 400)
AuthError(message) == AppError(message, 401)
\* the error body-parser passes on for a body that is not JSON
ParseError == AppError("Unexpected token in JSON", 400)

----------------------------------------------------------------------------
(* Requests and responses.                                                 *)

Body(name, description, price, category, inStock, id) ==
  [name |-> name, description |-> description, price |-> price,
   category |-> category, inStock |-> inStock, id |-> id]

\* req.body of a request without a body: {}
EmptyBody == Body(Undefined, Undefined, Undefined, Undefined, Undefined, Undefined)

Query(category, search, page, limit, name) ==
  [category |-> category, search |-> search, page |-> page, limit |-> limit,
   name |-> name]

NoQuery == Query(Undefined, Undefined, Undefined, Undefined, Undefined)

Headers(xApiKey, authorization) ==
  [xApiKey |-> xApiKey, authorization |-> authorization]

Request(method, path, headers, jsonOk, body, query) ==
  [method |-> method, path |-> path, headers |-> headers, jsonOk |-> jsonOk,
   body |-> body, query |-> query]

NoRequest == Request("", <<>>, Headers(Undefined, Undefined), TRUE, EmptyBody, NoQuery)

NoResponse == [status |-> 0, kind |-> "none", body |-> <<>>]
Response(status, kind, body) == [status |-> status, kind |-> kind, body |-> body]

\* process.env.API_KEY and process.env.NODE_ENV: not set
API_KEY == Undefined
NODE_ENV == Undefined

----------------------------------------------------------------------------
(* auth: the decision of the middleware, NoError when it calls next().     *)

\* variant: the authorization header is read first
auth_apiKey_authorizationFirst(r) ==
  IF Truthy(r.headers.authorization) THEN r.headers.authorization ELSE r.headers.xApiKey

auth_apiKey(r) ==
  IF Truthy(r.headers.xApiKey) THEN r.headers.xApiKey ELSE r.headers.authorization

auth_expected == IF Truthy(API_KEY) THEN API_KEY ELSE Str(T_SecretKey)

auth_check(r) ==
  LET apiKey == auth_apiKey(r)
  IN  IF ~Truthy(apiKey) \/ apiKey # auth_expected
      THEN AuthError("Invalid or missing API key")
      ELSE NoError

----------------------------------------------------------------------------
(* validateProduct: the list of errors it collects for a body.             *)

PriceInvalid(price) ==
  price.kind = "undefined" \/ TypeOf(price) # "number" \/ IsNaN(price)

\* variant: the fields are required whatever the mode
validateErrors_alwaysRequire(requireAllFields, body) ==
  (IF ~Truthy(body.name) \/ TypeOf(body.name) # "string"
   THEN <<"name is required and must be a string">> ELSE <<>>)
  \o
  (IF ~Truthy(body.description) \/ TypeOf(body.description) # "string"
   THEN <<"description is required and must be a string">> ELSE <<>>)
  \o
  (IF PriceInvalid(body.price)
   THEN <<"price is required and must be a number">> ELSE <<>>)
  \o
  (IF ~Truthy(body.category) \/ TypeOf(body.category) # "string"
   THEN <<"category is required and must be a string">> ELSE <<>>)
  \o
  (IF body.inStock.kind = "undefined" \/ TypeOf(body.inStock) # "boolean"
   THEN <<"inStock is required and must be a boolean">> ELSE <<>>)

\* variant: the texts are tested for their type only, not for being empty
validateErrors_typeOnly(requireAllFields, body) ==
  (IF (requireAllFields \/ In(body.name)) /\ TypeOf(body.name) # "string"
   THEN <<"name is required and must be a string">> ELSE <<>>)
  \o
  (IF (requireAllFields \/ In(body.description)) /\ TypeOf(body.description) # "string"
   THEN <<"description is required and must be a string">> ELSE <<>>)
  \o
  (IF (requireAllFields \/ In(body.price)) /\ PriceInvalid(body.price)
   THEN <<"price is required and must be a number">> ELSE <<>>)
  \o
  (IF (requireAllFields \/ In(body.category)) /\ TypeOf(body.category) # "string"
   THEN <<"category is required and must be a string">> ELSE <<>>)
  \o
  (IF (requireAllFields \/ In(body.inStock))
      /\ (body.inStock.kind = "undefined" \/ TypeOf(body.inStock) # "boolean")
   THEN <<"inStock is required and must be a boolean">> ELSE <<>>)

validateErrors(requireAllFields, body) ==
  (IF (requireAllFields \/ In(body.name))
      /\ (~Truthy(body.name) \/ TypeOf(body.name) # "string")
   THEN <<"name is required and must be a string">> ELSE <<>>)
  \o
  (IF (requireAllFields \/ In(body.description))
      /\ (~Truthy(body.description) \/ TypeOf(body.description) # "string")
   THEN <<"description is required and must be a string">> ELSE <<>>)
  \o
  (IF (requireAllFields \/ In(body.price)) /\ PriceInvalid(body.price)
   THEN <<"price is required and must be a number">> ELSE <<>>)
  \o
  (IF (requireAllFields \/ In(body.category))
      /\ (~Truthy(body.category) \/ TypeOf(body.category) # "string")
   THEN <<"category is required and must be a string">> ELSE <<>>)
  \o
  (IF (requireAllFields \/ In(body.inStock))
      /\ (body.inStock.kind = "undefined" \/ TypeOf(body.inStock) # "boolean")
   THEN <<"inStock is required and must be a boolean">> ELSE <<>>)

validate_check(requireAllFields, body) ==
  LET errors == validateErrors(requireAllFields, body)
  IN  IF Len(errors) # 0 THEN ValidationError(Join(errors, "; ")) ELSE NoError

----------------------------------------------------------------------------
(* Routes, in the order of their registration.                             *)

Routes ==
  << [name |-> "list",    method |-> "GET",    path |-> <<"api", "products">>,
      validate |-> FALSE],
     [name |-> "search",  method |-> "GET",    path |-> <<"api", "products", "search">>,
      validate |-> FALSE],
     [name |-> "getById", method |-> "GET",    path |-> <<"api", "products", ":id">>,
      validate |-> FALSE],
     [name |-> "create",  method |-> "POST",   path |-> <<"api", "products">>,
      validate |-> TRUE],
     [name |-> "update",  method |-> "PUT",    path |-> <<"api", "products", ":id">>,
      validate |-> TRUE],
     [name |-> "remove",  method |-> "DELETE", path |-> <<"api", "products", ":id">>,
      validate |-> FALSE],
     [name |-> "stats",   method |-> "GET",    path |-> <<"api", "products", "stats">>,
      validate |-> FALSE] >>

\* a path pattern matches a path segment by segment; :id matches any segment
PathMatches(pattern, path) ==
  /\ Len(pattern) = Len(path)
  /\ \A i \in 1..Len(pattern) : pattern[i] = ":id" \/ pattern[i] = path[i]

RouteMatches(rt, r) == rt.method = r.method /\ PathMatches(rt.path, r.path)

\* the first registered route that matches the request, 0 when none does
MatchRoute(r) ==
  IF \E i \in 1..Len(Routes) : RouteMatches(Routes[i], r)
  THEN CHOOSE i \in 1..Len(Routes) :
         /\ RouteMatches(Routes[i], r)
         /\ \A j \in 1..(i - 1) : ~RouteMatches(Routes[j], r)
  ELSE 0

\* app.use('/api', auth) applies to the paths under /api
UnderApi(path) == Len(path) >= 1 /\ path[1] = "api"

\* req.params.id
ParamId(r) == r.path[3]

----------------------------------------------------------------------------
(* Route handlers.  A handler yields the store and the identifier count it *)
(* leaves, and either the response it sends or the error it passes to      *)
(* next().                                                                 *)

Outcome(list, count, response, error) ==
  [products |-> list, uuidCount |-> count, res |-> response, err |-> error]

\* parseInt(v) || dflt
ParseIntOr(v, dflt) ==
  LET parsed == ParseInt(v) IN IF Truthy(parsed) THEN parsed.n ELSE dflt

CategoryIs(category, p) == p.category = category
NameIncludes(q, p) == Includes(ToLowerCase(p.name.s), q)

FilterByCategory(list, category) ==
  Filter(list, [i \in 1..Len(list) |-> CategoryIs(category, list[i])])

FilterByName(list, q) ==
  Filter(list, [i \in 1..Len(list) |-> NameIncludes(q, list[i])])

\* variant: the search filters the whole store, not the products the
\* category filter kept
listProducts_searchOnStore(list, count, r) ==
  LET byCategory == IF Truthy(r.query.category)
                    THEN FilterByCategory(list, r.query.category)
                    ELSE list
      result == IF Truthy(r.query.search)
                THEN FilterByName(list, ToLowerCase(r.query.search.s))
                ELSE byCategory
      page  == Max(1, ParseIntOr(r.query.page, 1))
      limit == Max(1, ParseIntOr(r.query.limit, 10))
      start == (page - 1) * limit
      end   == start + limit
      paged == Slice(result, start, end)
  IN  Outcome(list, count,
              Response(200, "list", [total |-> Len(result), page |-> page,
                                     limit |-> limit, results |-> paged]),
              NoError)

\* GET /api/products
listProducts(list, count, r) ==
  LET byCategory == IF Truthy(r.query.category)
                    THEN FilterByCategory(list, r.query.category)
                    ELSE list
      result == IF Truthy(r.query.search)
                THEN FilterByName(byCategory, ToLowerCase(r.query.search.s))
                ELSE byCategory
      page  == Max(1, ParseIntOr(r.query.page, 1))
      limit == Max(1, ParseIntOr(r.query.limit, 10))
      start == (page - 1) * limit
      end   == start + limit
      paged == Slice(result, start, end)
  IN  Outcome(list, count,
              Response(200, "list", [total |-> Len(result), page |-> page,
                                     limit |-> limit, results |-> paged]),
              NoError)

\* variant: the term is compared as it was sent
searchProducts_caseSensitive(list, count, r) ==
  IF ~Truthy(r.query.name)
  THEN Outcome(list, count, NoResponse,
               ValidationError("Query parameter \"name\" is required"))
  ELSE Outcome(list, count, Response(200, "array", FilterByName(list, r.query.name.s)),
               NoError)

\* GET /api/products/search
searchProducts(list, count, r) ==
  IF ~Truthy(r.query.name)
  THEN Outcome(list, count, NoResponse,
               ValidationError("Query parameter \"name\" is required"))
  ELSE Outcome(list, count,
               Response(200, "array", FilterByName(list, ToLowerCase(r.query.name.s))),
               NoError)

\* GET /api/products/:id
getProduct(list, count, r) ==
  LET idx == FindIndex(list, ParamId(r))
  IN  IF idx = 0
      THEN Outcome(list, count, NoResponse, NotFoundError("Product not found"))
      ELSE Outcome(list, count, Response(200, "product", list[idx]), NoError)

\* variant: the identifier is the length of the store plus one
createId_fromLength(list, count, body) == ToString(Len(list) + 1)

\* the identifier POST gives to the product it creates
createId(list, count, body) == uuidv4(count + 1)

\* POST /api/products
createProduct(list, count, r) ==
  LET newProduct == Product(createId(list, count, r.body), r.body.name,
                            r.body.description, r.body.price, r.body.category,
                            r.body.inStock)
  IN  Outcome(Append(list, newProduct), count + 1,
              Response(201, "product", newProduct), NoError)

\* variant: the product is written without a look at the index found
updateProduct_noCheck(list, count, r) ==
  LET idx == FindIndex(list, ParamId(r))
      updated == Product(ParamId(r), r.body.name, r.body.description, r.body.price,
                         r.body.category, r.body.inStock)
  IN  Outcome(IF idx = 0 THEN Append(list, updated) ELSE [list EXCEPT ![idx] = updated],
              count, Response(200, "product", updated), NoError)

\* variant: the price of the replaced product is kept
updateProduct_keepsPrice(list, count, r) ==
  LET idx == FindIndex(list, ParamId(r))
  IN  IF idx = 0
      THEN Outcome(list, count, NoResponse, NotFoundError("Product not found"))
      ELSE LET updated == Product(list[idx].id, r.body.name, r.body.description,
                                  list[idx].price, r.body.category, r.body.inStock)
           IN  Outcome([list EXCEPT ![idx] = updated], count,
                       Response(200, "product", updated), NoError)

\* the identifier PUT leaves on the product it replaces
updateId(old, r) == old.id

\* PUT /api/products/:id
updateProduct(list, count, r) ==
  LET idx == FindIndex(list, ParamId(r))
  IN  IF idx = 0
      THEN Outcome(list, count, NoResponse, NotFoundError("Product not found"))
      ELSE LET updated == Product(updateId(list[idx], r), r.body.name,
                                  r.body.description, r.body.price,
                                  r.body.category, r.body.inStock)
           IN  Outcome([list EXCEPT ![idx] = updated], count,
                       Response(200, "product", updated), NoError)

\* variant: splice before the look at the index found; splice(-1, 1)
\* removes the last product
deleteProduct_spliceFirst(list, count, r) ==
  LET idx == FindIndex(list, ParamId(r))
  IN  IF idx = 0
      THEN Outcome(SubSeq(list, 1, Len(list) - 1), count, NoResponse,
                   NotFoundError("Product not found"))
      ELSE Outcome(Splice(list, idx), count,
                   Response(200, "product", list[idx]), NoError)

\* variant: splice(idx) without a count removes every product from idx on
deleteProduct_spliceToEnd(list, count, r) ==
  LET idx == FindIndex(list, ParamId(r))
  IN  IF idx = 0
      THEN Outcome(list, count, NoResponse, NotFoundError("Product not found"))
      ELSE Outcome(SubSeq(list, 1, idx - 1), count,
                   Response(200, "product", list[idx]), NoError)

\* DELETE /api/products/:id
deleteProduct(list, count, r) ==
  LET idx == FindIndex(list, ParamId(r))
  IN  IF idx = 0
      THEN Outcome(list, count, NoResponse, NotFoundError("Product not found"))
      ELSE Outcome(Splice(list, idx), count,
                   Response(200, "product", list[idx]), NoError)

RECURSIVE SumPrices(_)
\* products.reduce((s, p) => s + p.price, 0) over finite prices
SumPrices(list) ==
  IF list = <<>> THEN 0 ELSE list[1].price.n + SumPrices(Tail(list))

\* the average price as the fraction sum / total; Infinity as soon as one
\* price is Infinity
AvgPrice(list) ==
  IF Len(list) = 0 THEN [fin |-> "finite", sum |-> 0, total |-> 1]
  ELSE IF \E i \in 1..Len(list) : list[i].price.fin # "finite"
       THEN [fin |-> "Infinity", sum |-> 0, total |-> Len(list)]
       ELSE [fin |-> "finite", sum |-> SumPrices(list), total |-> Len(list)]

CountByCategory(list) ==
  [c \in {list[i].category.s : i \in 1..Len(list)} |->
     Cardinality({i \in 1..Len(list) : list[i].category.s = c})]

\* GET /api/products/stats
statsProducts(list, count, r) ==
  Outcome(list, count,
          Response(200, "stats", [total |-> Len(list), avgPrice |-> AvgPrice(list),
                                  countByCategory |-> CountByCategory(list)]),
          NoError)

\* the handler of the route named name
RunHandler(name, list, count, r) ==
  CASE name = "list"    -> listProducts(list, count, r)
    [] name = "search"  -> searchProducts(list, count, r)
    [] name = "getById" -> getProduct(list, count, r)
    [] name = "create"  -> createProduct(list, count, r)
    [] name = "update"  -> updateProduct(list, count, r)
    [] name = "remove"  -> deleteProduct(list, count, r)
    [] name = "stats"   -> statsProducts(list, count, r)

\* variant: the status of the error is not looked at
ErrorResponse_always500(e) ==
  Response(500, "error",
           [error |-> IF e.message # "" THEN e.message ELSE "Internal Server Error",
            stack |-> NODE_ENV # Str(<<"p","r","o","d","u","c","t","i","o","n">>)])

\* the response of the global error handler
ErrorResponse(e) ==
  Response(IF e.status # 0 THEN e.status ELSE 500, "error",
           [error |-> IF e.message # "" THEN e.message ELSE "Internal Server Error",
            stack |-> NODE_ENV # Str(<<"p","r","o","d","u","c","t","i","o","n">>)])

----------------------------------------------------------------------------
(* The requests the clients send.                                          *)

Methods == {"GET", "POST", "PUT", "DELETE"}

ProductsPath == <<"api", "products">>
IdPath(id) == <<"api", "products", id>>

\* identifiers the requests name: a seed product, the created products, an
\* identifier no product has, and the two literal sub-paths
PathIds == {"1", "999", "stats", "search"} \cup {uuidv4(n) : n \in 1..MaxCreates}

Paths == {<<>>, <<"api", "orders">>, ProductsPath} \cup {IdPath(id) : id \in PathIds}

HeaderSets ==
  {Headers(x, a) : x \in {Undefined, Str(<<>>), Str(T_SecretKey), Str(T_Wrong)},
                   a \in {Undefined, Str(T_SecretKey), Str(T_Wrong)}}

GoodHeaders == Headers(Str(T_SecretKey), Undefined)

ValidBody ==
  Body(Str(T_Table), Str(T_TableDesc), Num(250), Str(T_Furniture), Bool(TRUE), Undefined)

Bodies ==
  {Body(name, description, price, category, inStock, Undefined) :
     name \in {Undefined, Str(<<>>), Str(T_Table)},
     description \in {Undefined, Str(T_TableDesc)},
     price \in {Undefined, Num(250), Infinity, Str(<<"2", "5", "0">>)},
     category \in {Str(T_Furniture), Num(7)},
     inStock \in {Bool(TRUE), Str(<<"y", "e", "s">>)}}
  \cup {EmptyBody, Body(Str(T_Table), Str(T_TableDesc), Num(250), Str(T_Furniture),
                        Bool(TRUE), Str(<<"1">>))}

Queries ==
  {NoQuery,
   Query(Str(T_Electronics), Undefined, Str(<<"1">>), Str(<<"1">>), Undefined),
   Query(Undefined, Str(T_Phone), Undefined, Str(<<"0">>), Str(T_Phone)),
   Query(Str(T_Furniture), Str(<<"t", "a">>), Str(<<"2">>), Str(<<"a">>), Str(<<>>))}

\* query strings of the list endpoint
ListQueries ==
  {Query(category, search, page, limit, Undefined) :
     category \in {Undefined, Str(<<>>), Str(T_Electronics)},
     search \in {Undefined, Str(<<>>), Str(T_Phone), Str(<<"O">>)},
     page \in {Undefined, Str(<<"2">>), Str(<<"0">>), Str(<<"-", "1">>), Str(<<"x">>)},
     limit \in {Undefined, Str(<<"1">>), Str(<<"2">>), Str(<<"0">>),
                Str(<<"-", "5">>), Str(<<"x">>)}}

\* query strings of the search endpoint
SearchQueries ==
  {Query(Undefined, Undefined, page, limit, name) :
     page \in {Undefined, Str(<<"2">>)},
     limit \in {Undefined, Str(<<"1">>)},
     name \in {Undefined, Str(<<>>), Str(T_Phone), Str(<<"o">>), Str(<<"z", "z">>)}}

\* requests with every combination of credentials, with and without a body
\* that parses
AuthRequests ==
  {Request(m, p, h, ok, ValidBody, NoQuery) :
     m \in Methods,
     p \in {<<>>, <<"api", "orders">>, ProductsPath, IdPath("1"), IdPath("stats")},
     h \in HeaderSets, ok \in BOOLEAN}

\* authenticated requests with every body
BodyRequests ==
  {Request("POST", ProductsPath, GoodHeaders, TRUE, b, NoQuery) : b \in Bodies}
  \cup
  {Request("PUT", IdPath("1"), GoodHeaders, TRUE, b, NoQuery) : b \in Bodies}
  \cup
  {Request("PUT", IdPath(id), GoodHeaders, TRUE, b, NoQuery) :
     id \in PathIds,
     b \in {ValidBody, [ValidBody EXCEPT !.price = Infinity],
            [ValidBody EXCEPT !.name = Str(<<>>), !.inStock = Null]}}
  \cup
  {Request(m, p, GoodHeaders, TRUE, b, NoQuery) :
     m \in Methods, p \in Paths,
     b \in {EmptyBody, Body(Num(7), Undefined, Undefined, Undefined, Undefined, Undefined)}}

\* authenticated reads with a query string
QueryRequests ==
  {Request("GET", p, GoodHeaders, TRUE, EmptyBody, q) :
     p \in {ProductsPath, IdPath("search"), IdPath("stats")},
     q \in Queries}

Requests == AuthRequests \cup BodyRequests \cup QueryRequests

----------------------------------------------------------------------------
(* The state and its steps.                                                *)

\* a connection: the request it carries, its response, the store when the
\* request arrived and the place of the request in committed
Slot(state, r, response, list, at) ==
  [pc |-> state, req |-> r, res |-> response, before |-> list, at |-> at]

NoSlot == Slot("idle", NoRequest, NoResponse, <<>>, 0)

Init ==
  /\ inflight = [c \in 1..MaxInFlight |-> NoSlot]
  /\ committed = <<>>
  /\ products = SeedProducts
  /\ uuidCount = 0
  /\ pc = "idle"
  /\ req = NoRequest
  /\ res = NoResponse
  /\ err = NoError
  /\ route = ""
  /\ ran = <<>>
  /\ before = SeedProducts
  /\ lastWrite = [op |-> "none", id |-> "", body |-> EmptyBody]

\* a request arrives
Receive(r) ==
  /\ pc = "idle"
  /\ r.method = "POST" => uuidCount < MaxCreates
  /\ req' = r
  /\ before' = products
  /\ pc' = "bodyParser"
  /\ UNCHANGED <<products, uuidCount, res, err, route, ran, lastWrite, inflight, committed>>

\* app.use(bodyParser.json())
bodyParser ==
  /\ pc = "bodyParser"
  /\ ran' = Append(ran, "bodyParser")
  /\ err' = IF req.jsonOk THEN NoError ELSE ParseError
  /\ pc' = IF req.jsonOk THEN "logger" ELSE "errorHandler"
  /\ UNCHANGED <<products, uuidCount, req, res, route, before, lastWrite, inflight, committed>>

\* app.use(logger)
logger ==
  /\ pc = "logger"
  /\ ran' = Append(ran, "logger")
  /\ pc' = "root"
  /\ UNCHANGED <<products, uuidCount, req, res, err, route, before, lastWrite, inflight, committed>>

\* app.get('/') and the mount of auth on /api that follows it
root ==
  /\ pc = "root"
  /\ IF req.method = "GET" /\ req.path = <<>>
     THEN /\ ran' = Append(ran, "root")
          /\ res' = Response(200, "text", "Welcome to the Product API! Visit /api/products")
          /\ pc' = "sent"
     ELSE /\ ran' = ran
          /\ res' = res
          /\ pc' = IF UnderApi(req.path) THEN "auth" ELSE "router"
  /\ UNCHANGED <<products, uuidCount, req, err, route, before, lastWrite, inflight, committed>>

\* variant: next(err) without return, so that next() follows it
auth_noReturn ==
  /\ pc = "auth"
  /\ ran' = Append(ran, "auth")
  /\ err' = auth_check(req)
  /\ pc' = "router"
  /\ UNCHANGED <<products, uuidCount, req, res, route, before, lastWrite, inflight, committed>>

\* app.use('/api', auth)
auth ==
  /\ pc = "auth"
  /\ ran' = Append(ran, "auth")
  /\ err' = auth_check(req)
  /\ pc' = IF auth_check(req) = NoError THEN "router" ELSE "errorHandler"
  /\ UNCHANGED <<products, uuidCount, req, res, route, before, lastWrite, inflight, committed>>

\* the router picks the first route that matches; with no route the
\* framework answers 404 itself
router ==
  /\ pc = "router"
  /\ LET i == MatchRoute(req)
     IN  IF i = 0
         THEN /\ res' = Response(404, "html", "Cannot " \o req.method)
              /\ route' = route
              /\ pc' = "sent"
         ELSE /\ res' = res
              /\ route' = Routes[i].name
              /\ pc' = IF Routes[i].validate THEN "validateProduct" ELSE "handler"
  /\ UNCHANGED <<products, uuidCount, req, err, ran, before, lastWrite, inflight, committed>>

\* validateProduct(true), on the create and update routes
validateProduct ==
  /\ pc = "validateProduct"
  /\ ran' = Append(ran, "validateProduct")
  /\ err' = validate_check(TRUE, req.body)
  /\ pc' = IF validate_check(TRUE, req.body) = NoError THEN "handler" ELSE "errorHandler"
  /\ UNCHANGED <<products, uuidCount, req, res, route, before, lastWrite, inflight, committed>>

\* asyncHandler(fn) of the matched route
asyncHandler ==
  /\ pc = "handler"
  /\ LET out == RunHandler(route, products, uuidCount, req)
     IN  /\ products' = out.products
         /\ uuidCount' = out.uuidCount
         /\ res' = out.res
         /\ err' = out.err
         /\ pc' = IF out.err = NoError THEN "sent" ELSE "errorHandler"
         /\ lastWrite' = IF out.err = NoError /\ route \in {"create", "update", "remove"}
                         THEN [op |-> route, id |-> out.res.body.id, body |-> req.body]
                         ELSE lastWrite
  /\ ran' = Append(ran, route)
  /\ UNCHANGED <<req, route, before, inflight, committed>>

\* the global error handler
errorHandler ==
  /\ pc = "errorHandler"
  /\ ran' = Append(ran, "errorHandler")
  /\ res' = ErrorResponse(err)
  /\ pc' = "sent"
  /\ UNCHANGED <<products, uuidCount, req, err, route, before, lastWrite, inflight, committed>>

\* the response has been written; the server waits for the next request
Finish ==
  /\ pc = "sent"
  /\ pc' = "idle"
  /\ req' = NoRequest
  /\ res' = NoResponse
  /\ err' = NoError
  /\ route' = ""
  /\ ran' = <<>>
  /\ before' = products
  /\ UNCHANGED <<products, uuidCount, lastWrite, inflight, committed>>

Next ==
  \/ \E r \in Requests : Receive(r)
  \/ bodyParser
  \/ logger
  \/ root
  \/ auth
  \/ router
  \/ validateProduct
  \/ asyncHandler
  \/ errorHandler
  \/ Finish

Spec == Init /\ [][Next]_vars

\* The same server under another load: few writes, and reads of the list
\* and search endpoints with every query string.
QueryLoad ==
  {Request("GET", ProductsPath, GoodHeaders, TRUE, EmptyBody, q) : q \in ListQueries}
  \cup
  {Request("GET", IdPath("search"), GoodHeaders, TRUE, EmptyBody, q) : q \in SearchQueries}
  \cup
  {Request("POST", ProductsPath, GoodHeaders, TRUE, ValidBody, NoQuery),
   Request("DELETE", IdPath("2"), GoodHeaders, TRUE, EmptyBody, NoQuery),
   Request("DELETE", IdPath("3"), GoodHeaders, TRUE, EmptyBody, NoQuery),
   Request("GET", <<>>, Headers(Undefined, Undefined), TRUE, EmptyBody, NoQuery)}

NextQuery ==
  \/ \E r \in QueryLoad : Receive(r)
  \/ bodyParser
  \/ logger
  \/ root
  \/ auth
  \/ router
  \/ validateProduct
  \/ asyncHandler
  \/ errorHandler
  \/ Finish

SpecQuery == Init /\ [][NextQuery]_vars

----------------------------------------------------------------------------
(* Vocabulary of the properties.                                           *)

Range(seq) == {seq[i] : i \in 1..Len(seq)}

Key == Str(T_SecretKey)

\* the response of the request in progress has been written
Sent == pc = "sent"

\* the request carries the key in x-api-key and a body that parses
Authenticated == req.headers.xApiKey = Key /\ req.jsonOk

Ids(list) == {list[i].id : i \in 1..Len(list)}

ErrorStatuses == {400, 401, 404, 500}

----------------------------------------------------------------------------
(* C1: an authenticated GET /api/products/stats is answered by the stats   *)
(* handler with 200 and {total, avgPrice, countByCategory}, total being    *)
(* the number of stored products; the :id route never takes it.            *)

C1_StatsReachesStatsHandler ==
  (Sent /\ Authenticated /\ req.method = "GET" /\ req.path = IdPath("stats"))
    => /\ route = "stats"
       /\ res.status = 200
       /\ res.kind = "stats"
       /\ res.body.total = Len(products)

----------------------------------------------------------------------------
(* C2: a request under /api that carries the configured key in neither    *)
(* header is answered 401, whatever its method, path, query and body, a    *)
(* body that fails JSON parsing included.                                  *)

CarriesNoKey(r) == r.headers.xApiKey # Key /\ r.headers.authorization # Key

C2_NoKeyAnswers401 ==
  (Sent /\ UnderApi(req.path) /\ CarriesNoKey(req)) => res.status = 401

----------------------------------------------------------------------------
(* C3: a request under /api that carries the configured key in x-api-key   *)
(* or in authorization passes authentication, whatever the other header    *)
(* holds.                                                                  *)

KeyInPreferredHeader(r) ==
  \/ r.headers.xApiKey = Key
  \/ /\ r.headers.xApiKey \in {Undefined, Str(<<>>)}
     /\ r.headers.authorization = Key

----------------------------------------------------------------------------
(* C4: when authentication fails, neither validateProduct nor a route      *)
(* handler runs, the store stays as it was, and the one response of the    *)
(* request is the one the global error handler writes.                     *)

AuthFailed == "auth" \in Range(ran) /\ err.status = 401

C4_AuthFailureShortCircuits ==
  AuthFailed
    => /\ ran \in {<<"bodyParser", "logger", "auth">>,
                   <<"bodyParser", "logger", "auth", "errorHandler">>}
       /\ route = ""
       /\ products = before
       /\ pc \in {"errorHandler", "sent"}
       /\ pc = "errorHandler" => res = NoResponse
       /\ pc = "sent" => (res.status = 401 /\ res.kind = "error"
                          /\ ran[Len(ran)] = "errorHandler")

C4_Witness ==
  /\ Sent
  /\ AuthFailed
  /\ req.method = "POST"
  /\ req.path = ProductsPath
  /\ req.body = ValidBody
  /\ res.status = 401

----------------------------------------------------------------------------
(* C5: no two products of the store have the same id, and the id a create  *)
(* returns is not empty and differs from every id the store held before.   *)

C5_IdsUnique ==
  /\ \A i, j \in 1..Len(products) : products[i].id = products[j].id => i = j
  /\ (Sent /\ route = "create" /\ res.status = 201)
       => /\ res.body.id # ""
          /\ res.body.id \notin Ids(before)

C5_Witness ==
  /\ Sent
  /\ route = "create"
  /\ res.status = 201
  /\ Len(before) < Len(SeedProducts)
  /\ Len(products) = Len(before) + 1

----------------------------------------------------------------------------
(* C6: round trip.  After a POST, a GET by the returned id yields the      *)
(* posted fields; after a PUT, a GET by that id yields the new fields and  *)
(* the same id; after a DELETE, a GET by that id answers 404 - as long as  *)
(* no other write comes in between.                                        *)

GetsLastWritten ==
  /\ Sent
  /\ Authenticated
  /\ req.method = "GET"
  /\ lastWrite.op # "none"
  /\ req.path = IdPath(lastWrite.id)

C6_RoundTrip ==
  GetsLastWritten
    => IF lastWrite.op \in {"create", "update"}
       THEN /\ res.status = 200
            /\ res.kind = "product"
            /\ res.body = Product(lastWrite.id, lastWrite.body.name,
                                  lastWrite.body.description, lastWrite.body.price,
                                  lastWrite.body.category, lastWrite.body.inStock)
       ELSE res.status = 404

C6_Witness ==
  /\ GetsLastWritten
  /\ lastWrite.op = "update"
  /\ lastWrite.id = uuidv4(1)
  /\ res.status = 200

----------------------------------------------------------------------------
(* C7: an authenticated POST or PUT is rejected with 400 exactly when one  *)
(* of name, description, price, category, inStock is missing or breaks its *)
(* rule - a non-empty string, a non-empty string, a finite number, a       *)
(* non-empty string, a boolean - and the message then has one entry for    *)
(* each such field, in that order, joined by '; '.                         *)

IsNonEmptyString(v) == v.kind = "string" /\ v.s # <<>>
IsFiniteNumber(v) == v.kind = "number" /\ v.fin = "finite"
IsBoolean(v) == v.kind = "boolean"

Violations(body) ==
  (IF IsNonEmptyString(body.name) THEN <<>>
   ELSE <<"name is required and must be a string">>)
  \o (IF IsNonEmptyString(body.description) THEN <<>>
      ELSE <<"description is required and must be a string">>)
  \o (IF IsFiniteNumber(body.price) THEN <<>>
      ELSE <<"price is required and must be a number">>)
  \o (IF IsNonEmptyString(body.category) THEN <<>>
      ELSE <<"category is required and must be a string">>)
  \o (IF IsBoolean(body.inStock) THEN <<>>
      ELSE <<"inStock is required and must be a boolean">>)

C7_RejectedIffSomeFieldViolates ==
  (Sent /\ Authenticated /\ route \in {"create", "update"})
    => IF Violations(req.body) # <<>>
       THEN /\ res.status = 400
            /\ res.body.error = Join(Violations(req.body), "; ")
       ELSE res.status # 400

----------------------------------------------------------------------------
(* C8: a price that is not a finite number is rejected by the validation,  *)
(* Infinity like NaN, and no stored product has a price that is not a      *)
(* finite number.                                                          *)

C8_PriceFinite ==
  /\ \A i \in 1..Len(products) : IsFiniteNumber(products[i].price)
  /\ (Sent /\ Authenticated /\ route \in {"create", "update"}
           /\ ~IsFiniteNumber(req.body.price))
       => res.status = 400

----------------------------------------------------------------------------
(* C9: an authenticated GET, PUT or DELETE on /api/products/:id with an id *)
(* no product has is answered 404, whatever the body.                      *)

OnAbsentId ==
  /\ Sent
  /\ req.headers.xApiKey = Key
  /\ req.method \in {"GET", "PUT", "DELETE"}
  /\ Len(req.path) = 3
  /\ SubSeq(req.path, 1, 2) = ProductsPath
  /\ req.path[3] \notin Ids(before)

C9_AbsentIdAnswers404 == OnAbsentId => res.status = 404

\* C9 as amended: with a body that parses and an id other than the literal
\* sub-paths search and stats, GET and DELETE answer 404 whatever the body
\* holds; PUT answers 400 when validateProduct rejects the body and 404 when
\* it lets the body through.
C9_AbsentIdAnswers404UnlessInvalid ==
  (OnAbsentId /\ req.jsonOk /\ req.path[3] \notin {"search", "stats"})
    => IF req.method = "PUT" /\ validateErrors(TRUE, req.body) # <<>>
       THEN res.status = 400
       ELSE res.status = 404

C9_Witness ==
  /\ OnAbsentId
  /\ req.method = "PUT"
  /\ req.path = IdPath("999")
  /\ req.body = ValidBody
  /\ res.status = 404

----------------------------------------------------------------------------
(* C10: a request answered with 400, 401, 404 or 500 leaves the store as   *)
(* it was when the request arrived, and so does every GET.                 *)

C10_ErrorsAndReadsKeepStore ==
  (Sent /\ (res.status \in ErrorStatuses \/ req.method = "GET"))
    => products = before

C10_Witness ==
  /\ Sent
  /\ req.method = "DELETE"
  /\ res.status = 404
  /\ Len(products) = Len(SeedProducts) + 1

----------------------------------------------------------------------------
(* Vocabulary of the properties on the list and search endpoints.          *)

\* the response of an authenticated GET /api/products has been written
ListAnswered ==
  Sent /\ Authenticated /\ req.method = "GET" /\ req.path = ProductsPath

\* the name of p contains the text term, whatever the case of the letters
NameContains(p, term) == Includes(ToLowerCase(p.name.s), ToLowerCase(term))

\* the products of list that pass the filters q asks for; a parameter that
\* is absent or empty asks for no filter
Matching(list, q) ==
  LET Test(p) == /\ Truthy(q.category) => p.category = q.category
                 /\ Truthy(q.search) => NameContains(p, q.search.s)
  IN  SelectSeq(list, Test)

RECURSIVE ToText(_)
\* the decimal text of a natural number
ToText(n) == IF n < 10 THEN <<Digits[n + 1]>>
             ELSE ToText(n \div 10) \o <<Digits[(n % 10) + 1]>>

\* the body of the answer to the list request with the filters of q, page p
\* and limit l, on the store as it is
PageBody(q, p, l) ==
  listProducts(products, uuidCount,
               Request("GET", ProductsPath, GoodHeaders, TRUE, EmptyBody,
                       [q EXCEPT !.page = Str(ToText(p)), !.limit = Str(ToText(l))])
              ).res.body

RECURSIVE ConcatPages(_, _, _, _)
\* the results of the pages from..last, one after the other
ConcatPages(q, l, from, last) ==
  IF from > last THEN <<>>
  ELSE PageBody(q, from, l).results \o ConcatPages(q, l, from + 1, last)

\* the largest limit the pages are cut with
MaxLimit == 3

----------------------------------------------------------------------------
(* C11: for a filtered sequence of N products and a limit L >= 1, the      *)
(* results of the pages 1..ceil(N/L) one after the other are the filtered  *)
(* sequence, every page reports total = N, and the page after the last is  *)
(* empty with total N.                                                     *)

C11_PagesPartitionTheFiltered ==
  ListAnswered
    => LET f == Matching(products, req.query)
           N == Len(f)
       IN  /\ res.body.total = N
           /\ res.body.results =
                SubSeq(f, (res.body.page - 1) * res.body.limit + 1,
                       Min(res.body.page * res.body.limit, N))
           /\ \A l \in 1..MaxLimit :
                LET last == (N + l - 1) \div l
                IN  /\ ConcatPages(req.query, l, 1, last) = f
                    /\ \A p \in 1..(last + 1) : PageBody(req.query, p, l).total = N
                    /\ \A p \in 1..last : PageBody(req.query, p, l).results # <<>>
                    /\ PageBody(req.query, last + 1, l).results = <<>>

C11_Witness ==
  /\ ListAnswered
  /\ req.query.category = Str(T_Electronics)
  /\ res.body.total = 2
  /\ res.body.limit = 1
  /\ res.body.page = 2
  /\ res.body.results = <<SeedProducts[2]>>

----------------------------------------------------------------------------
(* C12: the effective page is max(1, p) when the page parameter parses to  *)
(* an integer p and 1 otherwise; the effective limit is max(1, l) when the *)
(* limit parameter parses to an integer l and 10 otherwise, so that        *)
(* limit=0 and a negative limit give 1.                                    *)

\* max(1, n) when v parses to the integer n, dflt when it does not parse
Effective(v, dflt) ==
  IF IsNaN(ParseInt(v)) THEN dflt ELSE Max(1, ParseInt(v).n)

C12_EffectivePageAndLimit ==
  ListAnswered
    => /\ res.body.page = Effective(req.query.page, 1)
       /\ res.body.limit = Effective(req.query.limit, 10)

----------------------------------------------------------------------------
(* C13: with both a category and a search parameter, the filtered sequence *)
(* is the store restricted to the products of that category whose name     *)
(* contains the term, and is the same whichever filter is applied first.   *)

\* the products of list of that category whose name contains the term
InCategoryAndNamed(list, q) ==
  LET Test(p) == p.category = q.category /\ NameContains(p, q.search.s)
  IN  SelectSeq(list, Test)

CategoryThenSearch(list, q) ==
  FilterByName(FilterByCategory(list, q.category), ToLowerCase(q.search.s))

SearchThenCategory(list, q) ==
  FilterByCategory(FilterByName(list, ToLowerCase(q.search.s)), q.category)

FilteredIsBoth ==
  /\ res.body.total = Len(InCategoryAndNamed(before, req.query))
  /\ res.body.results =
       SubSeq(InCategoryAndNamed(before, req.query),
              (res.body.page - 1) * res.body.limit + 1,
              Min(res.body.page * res.body.limit, res.body.total))
  /\ CategoryThenSearch(before, req.query) = InCategoryAndNamed(before, req.query)
  /\ SearchThenCategory(before, req.query) = InCategoryAndNamed(before, req.query)

----------------------------------------------------------------------------
(* C14: an authenticated GET /api/products/search goes to the search       *)
(* handler; without a name, or with an empty one, it answers 400;          *)
(* otherwise it answers 200 with the array, in store order, of the         *)
(* products whose name contains the term whatever the case, with no        *)
(* envelope and no pagination.                                             *)

SearchAnswered ==
  Sent /\ Authenticated /\ req.method = "GET" /\ req.path = IdPath("search")

NamedLike(list, term) ==
  LET Test(p) == NameContains(p, term) IN SelectSeq(list, Test)

C14_SearchEndpoint ==
  SearchAnswered
    => /\ route = "search"
       /\ IF req.query.name \in {Undefined, Str(<<>>)}
          THEN res.status = 400 /\ res.kind = "error"
          ELSE /\ res.status = 200
               /\ res.kind = "array"
               /\ res.body = NamedLike(before, req.query.name.s)

C14_Witness ==
  /\ SearchAnswered
  /\ req.query.name = Str(T_Phone)
  /\ req.query.limit = Str(<<"1">>)
  /\ res.status = 200
  /\ res.body = <<SeedProducts[2]>>

----------------------------------------------------------------------------
(* C15: every error raised in the chain reaches the global error handler   *)
(* and is answered with its own status when it has one (401, 400, 404) and *)
(* with 500 when it has none, in a JSON body that carries its message; no  *)
(* other stage of the application writes an error response, and the status *)
(* of the error is the status of the response.                             *)

LastRan == IF ran = <<>> THEN "" ELSE ran[Len(ran)]

----------------------------------------------------------------------------
(* C16: for a request under /api the stages run in the order logger,       *)
(* authentication, body parsing, validation, route handler: the request is *)
(* logged before any stage that can fail and authenticated before its body *)
(* is parsed, so the failure of a later stage is only ever reported for a  *)
(* request that was logged and authenticated.                              *)

StageRank(stage) ==
  CASE stage = "logger"          -> 1
    [] stage = "auth"            -> 2
    [] stage = "bodyParser"      -> 3
    [] stage = "validateProduct" -> 4
    [] stage = "errorHandler"    -> 6
    [] OTHER                     -> 5

C16_StagesInOrder ==
  UnderApi(req.path)
    => /\ \A i, j \in 1..Len(ran) : i < j => StageRank(ran[i]) <= StageRank(ran[j])
       /\ (Sent /\ res.status = 400) => ("logger" \in Range(ran) /\ "auth" \in Range(ran))

----------------------------------------------------------------------------
(* C17: every product of the store has exactly the fields id, name,        *)
(* description, price, category, inStock, none undefined: name,            *)
(* description and category non-empty strings, price a number, inStock a   *)
(* boolean; no other field of a payload is stored.                         *)

ProductFields == {"id", "name", "description", "price", "category", "inStock"}

WellFormed(p) ==
  /\ DOMAIN p = ProductFields
  /\ p.id # ""
  /\ IsNonEmptyString(p.name)
  /\ IsNonEmptyString(p.description)
  /\ p.price.kind = "number"
  /\ IsNonEmptyString(p.category)
  /\ IsBoolean(p.inStock)

C17_ProductsWellFormed ==
  /\ \A i \in 1..Len(products) : WellFormed(products[i])
  /\ (Sent /\ route \in {"create", "update"} /\ res.status \in {200, 201})
       => /\ WellFormed(res.body)
          /\ res.body.id = (IF route = "create" THEN uuidv4(uuidCount) ELSE ParamId(req))

C17_Witness ==
  /\ Sent
  /\ route = "create"
  /\ res.status = 201
  /\ req.body.id = Str(<<"1">>)
  /\ res.body.id = uuidv4(1)
  /\ products[Len(products)] = res.body

----------------------------------------------------------------------------
(* C18: the store keeps its order.  A POST appends the new product; a PUT  *)
(* overwrites the five fields of its target from the payload, keeps its id *)
(* and its place and changes no other product; a DELETE removes its target *)
(* and keeps the other products and their order.                           *)

FromPayload(id, body) ==
  Product(id, body.name, body.description, body.price, body.category, body.inStock)

\* the place of the product with that id in list, 0 when there is none
PlaceOf(list, id) ==
  IF \E i \in 1..Len(list) : list[i].id = id
  THEN CHOOSE i \in 1..Len(list) : list[i].id = id
  ELSE 0

C18_WritesKeepOrder ==
  (Sent /\ res.status \in {200, 201} /\ route \in {"create", "update", "remove"})
    => LET k == PlaceOf(before, ParamId(req))
       IN  CASE route = "create" ->
                  /\ Len(products) = Len(before) + 1
                  /\ SubSeq(products, 1, Len(before)) = before
                  /\ products[Len(products)] = FromPayload(res.body.id, req.body)
             [] route = "update" ->
                  /\ k # 0
                  /\ Len(products) = Len(before)
                  /\ products[k] = FromPayload(before[k].id, req.body)
                  /\ \A i \in 1..Len(before) : i # k => products[i] = before[i]
             [] route = "remove" ->
                  /\ k # 0
                  /\ Len(products) = Len(before) - 1
                  /\ res.body = before[k]
                  /\ \A i \in 1..(k - 1) : products[i] = before[i]
                  /\ \A i \in k..Len(products) : products[i] = before[i + 1]

C18_Witness ==
  /\ Sent
  /\ route = "remove"
  /\ res.status = 200
  /\ Len(before) = Len(SeedProducts) + 1
  /\ PlaceOf(before, ParamId(req)) = 1

----------------------------------------------------------------------------
(* The validation middleware in partial mode, validateProduct(false),      *)
(* applied to payloads in which every field is absent, null, empty,        *)
(* wrong-typed or right.                                                   *)

PartialBodies ==
  {Body(name, description, price, category, inStock, Undefined) :
     name \in {Undefined, Null, Str(<<>>), Str(T_Table), Num(7)},
     description \in {Undefined, Str(<<>>), Str(T_TableDesc)},
     price \in {Undefined, Null, Num(250), Infinity, Str(<<"2", "5", "0">>)},
     category \in {Undefined, Str(T_Furniture), Num(7)},
     inStock \in {Undefined, Null, Bool(FALSE), Str(<<"y", "e", "s">>)}}

\* a request waits in front of validateProduct(false)
InitValidate ==
  /\ inflight = [c \in 1..MaxInFlight |-> NoSlot]
  /\ committed = <<>>
  /\ products = SeedProducts
  /\ uuidCount = 0
  /\ pc = "validateProduct"
  /\ req \in {Request("PUT", IdPath("1"), GoodHeaders, TRUE, b, NoQuery) : b \in PartialBodies}
  /\ res = NoResponse
  /\ err = NoError
  /\ route = ""
  /\ ran = <<>>
  /\ before = SeedProducts
  /\ lastWrite = [op |-> "none", id |-> "", body |-> EmptyBody]

\* validateProduct(false): next() hands the request to the stage that follows
validateProductPartial ==
  /\ pc = "validateProduct"
  /\ ran' = Append(ran, "validateProduct")
  /\ err' = validate_check(FALSE, req.body)
  /\ pc' = IF validate_check(FALSE, req.body) = NoError THEN "next" ELSE "errorHandler"
  /\ UNCHANGED <<products, uuidCount, req, res, route, before, lastWrite, inflight, committed>>

NextValidate ==
  \/ validateProductPartial
  \/ errorHandler

SpecValidate == InitValidate /\ [][NextValidate]_vars

----------------------------------------------------------------------------
(* C20: validateProduct(false) skips every field that is absent from the   *)
(* payload, neither reporting it nor giving it a value, and reports every  *)
(* field that is present but empty or of the wrong type; an empty payload  *)
(* is valid, and so is every payload that is valid when all fields are     *)
(* required.                                                               *)

Present(v) == v.kind # "undefined"

PartialViolations(body) ==
  (IF Present(body.name) /\ ~IsNonEmptyString(body.name)
   THEN <<"name is required and must be a string">> ELSE <<>>)
  \o (IF Present(body.description) /\ ~IsNonEmptyString(body.description)
      THEN <<"description is required and must be a string">> ELSE <<>>)
  \o (IF Present(body.price) /\ ~(body.price.kind = "number" /\ body.price.fin # "NaN")
      THEN <<"price is required and must be a number">> ELSE <<>>)
  \o (IF Present(body.category) /\ ~IsNonEmptyString(body.category)
      THEN <<"category is required and must be a string">> ELSE <<>>)
  \o (IF Present(body.inStock) /\ ~IsBoolean(body.inStock)
      THEN <<"inStock is required and must be a boolean">> ELSE <<>>)

PartialError(body) ==
  IF PartialViolations(body) = <<>> THEN NoError
  ELSE ValidationError(Join(PartialViolations(body), "; "))

C20_PartialModeSkipsAbsentFields ==
  [][pc = "validateProduct"
       => /\ req' = req
          /\ err' = PartialError(req.body)
          /\ pc' = (IF PartialError(req.body) = NoError THEN "next" ELSE "errorHandler")
          /\ req.body = EmptyBody => err' = NoError
          /\ validateErrors(TRUE, req.body) = <<>> => err' = NoError]_vars

C20_Witness ==
  /\ pc = "sent"
  /\ ran = <<"validateProduct", "errorHandler">>
  /\ ~Present(req.body.name)
  /\ ~Present(req.body.description)
  /\ req.body.price = Str(<<"2", "5", "0">>)
  /\ req.body.inStock = Null
  /\ res.status = 400
  /\ res.body.error =
       "price is required and must be a number; inStock is required and must be a boolean"

----------------------------------------------------------------------------
(* Several requests at once.  Node runs one callback at a time: a request  *)
(* arrives and its body is read from the socket while other requests may   *)
(* arrive or be served; once the body is there the chain from bodyParser   *)
(* to the response runs in one turn of the event loop, since no middleware *)
(* or handler of server.js waits for anything.                             *)

Served(list, count, response) ==
  [products |-> list, uuidCount |-> count, res |-> response]

\* the chain of middleware applied to request r on the store list
Serve(list, count, r) ==
  LET i == MatchRoute(r)
  IN  IF ~r.jsonOk
      THEN Served(list, count, ErrorResponse(ParseError))
      ELSE IF r.method = "GET" /\ r.path = <<>>
      THEN Served(list, count,
                  Response(200, "text", "Welcome to the Product API! Visit /api/products"))
      ELSE IF UnderApi(r.path) /\ auth_check(r) # NoError
      THEN Served(list, count, ErrorResponse(auth_check(r)))
      ELSE IF i = 0
      THEN Served(list, count, Response(404, "html", "Cannot " \o r.method))
      ELSE IF Routes[i].validate /\ validate_check(TRUE, r.body) # NoError
      THEN Served(list, count, ErrorResponse(validate_check(TRUE, r.body)))
      ELSE LET out == RunHandler(Routes[i].name, list, count, r)
           IN  Served(out.products, out.uuidCount,
                      IF out.err # NoError THEN ErrorResponse(out.err) ELSE out.res)

OtherBody ==
  Body(Str(T_Phone), Str(T_TableDesc), Num(99), Str(T_Electronics), Bool(FALSE), Undefined)

ConcLoad ==
  {Request("PUT", IdPath("2"), GoodHeaders, TRUE, ValidBody, NoQuery),
   Request("PUT", IdPath("2"), GoodHeaders, TRUE, OtherBody, NoQuery),
   Request("DELETE", IdPath("1"), GoodHeaders, TRUE, EmptyBody, NoQuery),
   Request("DELETE", IdPath("2"), GoodHeaders, TRUE, EmptyBody, NoQuery),
   Request("POST", ProductsPath, GoodHeaders, TRUE, ValidBody, NoQuery),
   Request("GET", IdPath("2"), GoodHeaders, TRUE, EmptyBody, NoQuery),
   Request("GET", ProductsPath, GoodHeaders, TRUE, EmptyBody, NoQuery)}

Waiting == {c \in 1..MaxInFlight : inflight[c].pc = "bodyParser"}

\* request r arrives on connection c
Arrive(c, r) ==
  /\ inflight[c].pc = "idle"
  /\ Len(committed) + Cardinality(Waiting) < MaxRequests
  /\ r.method = "POST"
       => uuidCount + Cardinality({d \in Waiting : inflight[d].req.method = "POST"})
            < MaxCreates
  /\ inflight' = [inflight EXCEPT ![c] = Slot("bodyParser", r, NoResponse, products, 0)]
  /\ UNCHANGED <<products, uuidCount, pc, req, res, err, route, ran, before, lastWrite,
                 committed>>

\* variant: the handler works on the store as it was when the request arrived
Run_onSnapshot(c) ==
  /\ inflight[c].pc = "bodyParser"
  /\ LET out == Serve(inflight[c].before, uuidCount, inflight[c].req)
     IN  /\ products' = out.products
         /\ uuidCount' = out.uuidCount
         /\ committed' = Append(committed, inflight[c].req)
         /\ inflight' = [inflight EXCEPT ![c] =
                           Slot("sent", inflight[c].req, out.res, inflight[c].before,
                                Len(committed) + 1)]
  /\ UNCHANGED <<pc, req, res, err, route, ran, before, lastWrite>>

\* the body of the request on connection c is there: its chain runs
Run(c) ==
  /\ inflight[c].pc = "bodyParser"
  /\ LET out == Serve(products, uuidCount, inflight[c].req)
     IN  /\ products' = out.products
         /\ uuidCount' = out.uuidCount
         /\ committed' = Append(committed, inflight[c].req)
         /\ inflight' = [inflight EXCEPT ![c] =
                           Slot("sent", inflight[c].req, out.res, inflight[c].before,
                                Len(committed) + 1)]
  /\ UNCHANGED <<pc, req, res, err, route, ran, before, lastWrite>>

\* the response on connection c has gone out
Done(c) ==
  /\ inflight[c].pc = "sent"
  /\ inflight' = [inflight EXCEPT ![c] = NoSlot]
  /\ UNCHANGED <<products, uuidCount, pc, req, res, err, route, ran, before, lastWrite,
                 committed>>

NextConc ==
  \/ \E c \in 1..MaxInFlight, r \in ConcLoad : Arrive(c, r)
  \/ \E c \in 1..MaxInFlight : Run(c)
  \/ \E c \in 1..MaxInFlight : Done(c)

SpecConc == Init /\ [][NextConc]_vars

----------------------------------------------------------------------------
(* C19: with several requests in flight, the store and every response are  *)
(* those of the requests served one after the other in the order their     *)
(* handlers ran, and a PUT or DELETE acts on the place its product has in  *)
(* the store at that moment, never on a place another request has moved.   *)

RECURSIVE Replay(_)
\* the store after the requests of history are served one after the other
Replay(history) ==
  IF history = <<>>
  THEN Served(SeedProducts, 0, NoResponse)
  ELSE LET s == Replay(SubSeq(history, 1, Len(history) - 1))
       IN  Serve(s.products, s.uuidCount, history[Len(history)])

WithoutPlace(list, k) == SubSeq(list, 1, k - 1) \o SubSeq(list, k + 1, Len(list))

C19_SerialInHandlerOrder ==
  /\ products = Replay(committed).products
  /\ uuidCount = Replay(committed).uuidCount
  /\ \A c \in 1..MaxInFlight :
       inflight[c].pc = "sent"
         => LET r == inflight[c].req
                at == inflight[c].at
                pre == Replay(SubSeq(committed, 1, at - 1)).products
                post == Replay(SubSeq(committed, 1, at)).products
                k == PlaceOf(pre, ParamId(r))
            IN  /\ at \in 1..Len(committed)
                /\ committed[at] = r
                /\ inflight[c].res = Replay(SubSeq(committed, 1, at)).res
                /\ (r.method = "PUT" /\ inflight[c].res.status = 200)
                     => /\ k # 0
                        /\ inflight[c].res.body = FromPayload(ParamId(r), r.body)
                        /\ post = [pre EXCEPT ![k] = FromPayload(ParamId(r), r.body)]
                /\ (r.method = "DELETE" /\ inflight[c].res.status = 200)
                     => /\ k # 0
                        /\ inflight[c].res.body = pre[k]
                        /\ post = WithoutPlace(pre, k)

C19_Witness ==
  \E c, d \in 1..MaxInFlight :
    /\ inflight[c].pc = "sent"
    /\ inflight[d].pc = "sent"
    /\ inflight[d].req.method = "DELETE"
    /\ ParamId(inflight[d].req) = "1"
    /\ inflight[d].res.status = 200
    /\ inflight[c].req.method = "PUT"
    /\ inflight[c].res.status = 200
    /\ inflight[c].at = inflight[d].at + 1
    /\ PlaceOf(inflight[c].before, "2") = 2
    /\ PlaceOf(products, "2") = 1
    /\ products[1] = inflight[c].res.body

====
